---- MODULE Spec2Model ----
(***************************************************************************)
(* A model of the EGFR/ALK pathology-report vectorizer                     *)
(* (src/utils/vectorizer.py) and of the row loop that drives it            *)
(* (src/run.py).                                                           *)
(*                                                                         *)
(* Text is modelled as Python models it: a sequence of characters, each a  *)
(* one-character string.  Regular expressions are modelled by a small      *)
(* backtracking matcher with the priority order of Python's re module      *)
(* (greedy repetition, leftmost alternative first), and every compiled     *)
(* pattern of Vectorizer.__init__ is transcribed as a syntax tree for that *)
(* matcher.  The interpreter is Python 2 (run.py calls reader.next()), so  *)
(* "/" on two ints is floor division.                                      *)
(***************************************************************************)
EXTENDS Integers, Sequences, FiniteSets, TLC

(***************************************************************************)
(* Characters                                                              *)
(***************************************************************************)
LowerLetters == <<"a", "b", "c", "d", "e", "f", "g", "h", "i", "j", "k", "l", "m", "n", "o", "p", "q", "r", "s", "t", "u", "v", "w", "x", "y", "z">>

UpperLetters == <<"A", "B", "C", "D", "E", "F", "G", "H", "I", "J", "K", "L", "M", "N", "O", "P", "Q", "R", "S", "T", "U", "V", "W", "X", "Y", "Z">>

Range(f) == {f[x] : x \in DOMAIN f}

Digits == {"0", "1", "2", "3", "4", "5", "6", "7", "8", "9"}

\* \w of a byte-string pattern: [a-zA-Z0-9_]
WordChars == Range(LowerLetters) \cup Range(UpperLetters) \cup Digits \cup {"_"}

\* \s of a byte-string pattern and the separators of str.split()
Whitespace == {" ", "\t", "\n", "\r", "\f"}

\* a character whose code point is 128 or more (one text element)
NonAscii == {"U+00E9"}

\* lower-case letter -> upper-case letter
UpperMap ==
  [c \in Range(LowerLetters) |-> UpperLetters[CHOOSE k \in 1..26 : LowerLetters[k] = c]]

\* str.upper() on one character
UpperChar(c) == IF c \in DOMAIN UpperMap THEN UpperMap[c] ELSE c

\* str.upper()
Upper(s) == [k \in 1..Len(s) |-> UpperChar(s[k])]

\* v is computed here, before it is used: every statement of the program
\* finishes before the next one starts
Computed(v) == v = v

SetMin(S) == CHOOSE x \in S : \A y \in S : x <= y

SetMax(S) == CHOOSE x \in S : \A y \in S : y <= x

(***************************************************************************)
(* Regular expressions: syntax trees and Python's matching order           *)
(***************************************************************************)
Inf == -1

Node(kind, chars, subs, lo, hi) ==
  [k |-> kind, s |-> chars, a |-> subs, lo |-> lo, hi |-> hi]

Chr(S) == Node("set", S, <<>>, 0, 0)          \* [...]
NotChr(S) == Node("nset", S, <<>>, 0, 0)      \* [^...]
Lit(w) == Node("lit", w, <<>>, 0, 0)          \* literal text
LitI(w) == Node("liti", w, <<>>, 0, 0)        \* literal text under re.IGNORECASE
Cat(a) == Node("cat", {}, a, 0, 0)            \* concatenation
Alt(a) == Node("alt", {}, a, 0, 0)            \* a1|a2|...
Rep(r, lo, hi) == Node("rep", {}, <<r>>, lo, hi)  \* r{lo,hi}, greedy
Opt(r) == Rep(r, 0, 1)                        \* r?
Bol == Node("bol", {}, <<>>, 0, 0)            \* ^ under re.MULTILINE
Eol == Node("eol", {}, <<>>, 0, 0)            \* $ under re.MULTILINE
Eos == Node("eos", {}, <<>>, 0, 0)            \* $ without re.MULTILINE

RECURSIVE Ends(_, _, _)
RECURSIVE EndsFrom(_, _, _)
RECURSIVE CatEnds(_, _, _, _)
RECURSIVE AltEnds(_, _, _, _)
RECURSIVE RepEnds(_, _, _, _, _)
RECURSIVE RepFrom(_, _, _, _, _)

\* The positions at which a match of re that starts at position i of s can
\* end (the index of the first character after it), in the order in which a
\* backtracking matcher tries them.
Ends(re, s, i) ==
  CASE re.k = "set" -> IF i <= Len(s) /\ s[i] \in re.s THEN <<i + 1>> ELSE <<>>
    [] re.k = "nset" -> IF i <= Len(s) /\ s[i] \notin re.s THEN <<i + 1>> ELSE <<>>
    [] re.k = "lit" ->
         IF i + Len(re.s) - 1 <= Len(s) /\ SubSeq(s, i, i + Len(re.s) - 1) = re.s
           THEN <<i + Len(re.s)>> ELSE <<>>
    [] re.k = "liti" ->
         IF i + Len(re.s) - 1 <= Len(s)
            /\ Upper(SubSeq(s, i, i + Len(re.s) - 1)) = Upper(re.s)
           THEN <<i + Len(re.s)>> ELSE <<>>
    [] re.k = "cat" -> CatEnds(re.a, 1, s, <<i>>)
    [] re.k = "alt" -> AltEnds(re.a, 1, s, i)
    [] re.k = "rep" -> RepEnds(re.a[1], re.lo, re.hi, s, i)
    [] re.k = "bol" -> IF i = 1 \/ (i > 1 /\ s[i - 1] = "\n") THEN <<i>> ELSE <<>>
    [] re.k = "eol" -> IF i = Len(s) + 1 \/ (i <= Len(s) /\ s[i] = "\n") THEN <<i>> ELSE <<>>
    [] re.k = "eos" -> IF i = Len(s) + 1 \/ (i = Len(s) /\ s[i] = "\n") THEN <<i>> ELSE <<>>

\* the ends of the matches of re that start at each of starts, in order
EndsFrom(re, s, starts) ==
  IF starts = <<>> THEN <<>>
  ELSE IF Len(starts) = 1 THEN Ends(re, s, starts[1])
  ELSE LET h == Len(starts) \div 2
       IN EndsFrom(re, s, SubSeq(starts, 1, h)) \o EndsFrom(re, s, SubSeq(starts, h + 1, Len(starts)))

CatEnds(a, n, s, starts) ==
  IF n > Len(a) THEN starts
  ELSE IF n = Len(a) THEN EndsFrom(a[n], s, starts)
  ELSE LET h == (n + Len(a)) \div 2
           first == CatEnds(SubSeq(a, 1, h), n, s, starts)
       IN IF Computed(first) THEN CatEnds(a, h + 1, s, first) ELSE <<>>

AltEnds(a, n, s, i) ==
  IF n > Len(a) THEN <<>>
  ELSE IF n = Len(a) THEN Ends(a[n], s, i)
  ELSE LET h == (n + Len(a)) \div 2
       IN AltEnds(SubSeq(a, 1, h), n, s, i) \o AltEnds(a, h + 1, s, i)

\* r{lo,hi} where r is one character class: the run of characters of the
\* class that starts at i, longest repetition first
ClassRepEnds(r, lo, hi, s, i) ==
  LET in(c) == IF r.k = "set" THEN c \in r.s ELSE c \notin r.s
      stop == SetMin({j \in i..(Len(s) + 1) : j = Len(s) + 1 \/ ~in(s[j])})
      most == IF hi >= 0 /\ stop - i > hi THEN hi ELSE stop - i
      least == IF lo > 0 THEN lo ELSE 0
  IN IF most < least THEN <<>> ELSE [n \in 1..(most - least + 1) |-> i + most - n + 1]

RepEnds(r, lo, hi, s, i) ==
  IF r.k \in {"set", "nset"} THEN ClassRepEnds(r, lo, hi, s, i)
  ELSE LET more == IF hi = 0 THEN <<>> ELSE SelectSeq(Ends(r, s, i), LAMBDA e : e > i)
       IN RepFrom(r, lo - 1, IF hi > 0 THEN hi - 1 ELSE hi, s, more)
            \o (IF lo <= 0 THEN <<i>> ELSE <<>>)

RepFrom(r, lo, hi, s, starts) ==
  IF starts = <<>> THEN <<>>
  ELSE RepEnds(r, lo, hi, s, Head(starts)) \o RepFrom(r, lo, hi, s, Tail(starts))

\* Where the match of re that starts at i ends; 0 when there is none.
MatchAt(re, s, i) ==
  LET e == Ends(re, s, i) IN IF e = <<>> THEN 0 ELSE Head(e)

\* pattern.search(s): is there a match anywhere
Search(re, s) == \E i \in 1..Len(s) : MatchAt(re, s, i) # 0

\* for every position, where the match that starts there ends (0: none)
MatchTable(re, s) == [j \in 1..Len(s) |-> MatchAt(re, s, j)]

\* the leftmost match at or after position i: <<start, end>>, or <<>>
NextMatch(m, i) ==
  LET starts == {j \in i..Len(m) : m[j] > j}
  IN IF starts = {} THEN <<>> ELSE <<SetMin(starts), m[SetMin(starts)]>>

RECURSIVE SubFrom(_, _, _, _, _)
SubFrom(m, repl, s, i, acc) ==
  LET nm == NextMatch(m, i)
      out == acc \o SubSeq(s, i, nm[1] - 1) \o repl
  IN IF nm = <<>> THEN acc \o SubSeq(s, i, Len(s))
     ELSE IF Computed(out) THEN SubFrom(m, repl, s, nm[2], out) ELSE out

\* pattern.sub(repl, s): every leftmost non-overlapping match replaced
\* (no pattern of the program matches the empty string)
Sub(re, repl, s) ==
  LET m == MatchTable(re, s)
  IN IF Computed(s) /\ Computed(m) THEN SubFrom(m, repl, s, 1, <<>>) ELSE s

RECURSIVE FlattenRange(_, _, _)
FlattenRange(seqs, lo, hi) ==
  IF lo > hi THEN <<>>
  ELSE IF lo = hi THEN seqs[lo]
  ELSE LET mid == (lo + hi) \div 2
       IN FlattenRange(seqs, lo, mid) \o FlattenRange(seqs, mid + 1, hi)

\* the sequences of seqs, one after the other
Flatten(seqs) == FlattenRange(seqs, 1, Len(seqs))

\* str.replace(old, new) and re.sub of an escaped literal
Replace(old, new, s) == Sub(Lit(old), new, s)

\* text = subout.sub(subin, text) for each rule (subout, subin) of
\* rules[lo..hi], one after the other
RECURSIVE SubEach(_, _, _, _)
SubEach(rules, lo, hi, text) ==
  IF lo > hi THEN text
  ELSE IF lo = hi THEN Sub(rules[lo].subout, rules[lo].subin, text)
  ELSE LET mid == (lo + hi) \div 2
           half == SubEach(rules, lo, mid, text)
       IN IF Computed(half) THEN SubEach(rules, mid + 1, hi, half) ELSE text

SubAll(rules, text) == SubEach(rules, 1, Len(rules), text)

RECURSIVE CountFrom(_, _)
CountFrom(m, i) ==
  LET nm == NextMatch(m, i)
  IN IF nm = <<>> THEN 0 ELSE 1 + CountFrom(m, nm[2])

\* str.count(w): non-overlapping occurrences
Count(w, s) == CountFrom(MatchTable(Lit(w), s), 1)

\* the elements of a set of numbers, smallest first
Sorted(S) ==
  LET rank == [i \in S |-> Cardinality({j \in S : j < i}) + 1]
  IN IF Computed(rank) THEN [k \in 1..Cardinality(S) |-> CHOOSE i \in S : rank[i] = k]
     ELSE <<>>

\* s.strip().split(): the maximal runs of non-whitespace characters
Split(s) ==
  LET starts == Sorted({i \in 1..Len(s) :
                         s[i] \notin Whitespace /\ (i = 1 \/ s[i - 1] \in Whitespace)})
      stops == Sorted({i \in 1..Len(s) :
                        s[i] \notin Whitespace /\ (i = Len(s) \/ s[i + 1] \in Whitespace)})
  IN [k \in 1..Len(starts) |-> SubSeq(s, starts[k], stops[k])]

(***************************************************************************)
(* Placeholders and literal strings of the program                         *)
(***************************************************************************)
TEST_INSTANCE == <<"T", "E", "S", "T", "_", "I", "N", "S", "T", "A", "N", "C", "E">>

OTHER_TEST == <<"O", "T", "H", "E", "R", "_", "T", "E", "S", "T">>

PUNCTUATION == <<"P", "U", "N", "C", "T", "U", "A", "T", "I", "O", "N">>

SPECIMEN_LABEL == <<"S", "P", "E", "C", "I", "M", "E", "N", "_", "L", "A", "B", "E", "L">>

SECTION == <<"_", "S", "E", "C", "T", "I", "O", "N", "_">>

THIS_ACC_NUM == <<"T", "H", "I", "S", "_", "A", "C", "C", "_", "N", "U", "M">>

OTHER_ACC_NUM == <<"O", "T", "H", "E", "R", "_", "A", "C", "C", "_", "N", "U", "M">>

DATE == <<"D", "A", "T", "E">>

\* ' {} '.format(w)
Spaced(w) == <<" ">> \o w \o <<" ">>

\* A feature string.  f is the fixed part of the string; t holds the tokens
\* that are appended to it, joined by "_" ('pre_window={}_{}').
Feature(f, t) == [f |-> f, t |-> t]

(***************************************************************************)
(* Pattern definitions (utils/patterns/*.json, read by _compile_patterns)  *)
(***************************************************************************)
\* condensed_patterns.json: test name -> pattern fragments
condensed_patterns ==
  << [label |-> "EGFR", frags |-> << <<"e", "g", "f", "r">> >>],
     [label |-> "ALK", frags |-> << <<"a", "l", "k">> >>] >>

\* other_kw_patterns.json: keyword placeholder -> pattern fragments
other_kw_patterns ==
  << [label |-> <<"I", "H", "C">>, frags |-> << <<"i", "h", "c">> >>] >>

\* section_patterns.json: section placeholder -> pattern fragments
section_patterns_json ==
  << [label |-> SECTION, frags |-> << <<"d", "x", ":">> >>] >>

(***************************************************************************)
(* Vectorizer.__init__                                                     *)
(***************************************************************************)
RECURSIVE CompileFrags(_, _, _, _, _, _)
CompileFrags(label, frags, n, uppercase, pre, post) ==
  IF n > Len(frags) THEN <<>>
  ELSE << [re |-> Cat(<<pre, Lit(frags[n]), post>>), frag |-> Lit(frags[n]), label |-> label] >>
       \o (IF uppercase
             THEN << [re |-> Cat(<<pre, Lit(Upper(frags[n])), post>>),
                      frag |-> Lit(Upper(frags[n])), label |-> label] >>
             ELSE <<>>)
       \o CompileFrags(label, frags, n + 1, uppercase, pre, post)

RECURSIVE CompileFrom(_, _, _, _, _)
CompileFrom(dict, n, uppercase, pre, post) ==
  IF n > Len(dict) THEN <<>>
  ELSE CompileFrags(dict[n].label, dict[n].frags, 1, uppercase, pre, post)
       \o CompileFrom(dict, n + 1, uppercase, pre, post)

\* _compile_patterns: each fragment between its cushions, then (uppercase)
\* the upper-cased fragment between the same cushions; (matcher, label) pairs
_compile_patterns(dict, uppercase, pre, post) == CompileFrom(dict, 1, uppercase, pre, post)

\* [\W\^] and [\W$]: one character that is not a word character
\* (inside a class ^ and $ are the literal characters, themselves non-word)
NonWordPre == NotChr(WordChars \ {"^"})

NonWordPost == NotChr(WordChars \ {"$"})

test_patterns == _compile_patterns(condensed_patterns, TRUE, NonWordPre, NonWordPost)

other_patterns == _compile_patterns(other_kw_patterns, FALSE, NonWordPre, NonWordPost)

section_patterns == _compile_patterns(section_patterns_json, TRUE, Bol, Eol)

replacements ==
  << OTHER_TEST,
     <<"P", "U", "B", "L", "I", "C", "A", "T", "I", "O", "N">>,
     TEST_INSTANCE,
     <<"I", "H", "C">>,
     <<"P", "A", "T", "H", "O", "L", "O", "G", "I", "S", "T">>,
     <<"B", "L", "O", "C", "K", "_", "A", "C", "C">>,
     <<"S", "P", "E", "C", "I", "F", "I", "C", "_", "M", "U", "T">>,
     <<"M", "U", "T", "_", "A", "N", "A", "L", "Y", "S", "I", "S">>,
     <<"F", "I", "S", "H">>,
     <<"A", "U", "T", "H", "O", "R">> >>

\* the characters of [,.\(\):\-;andor ]
Connectors == {",", ".", "(", ")", ":", "-", ";", "a", "n", "d", "o", "r", " "}

\* _compile_substitutions: index -> (subout, subin).  In the first ten rules
\* the replacement is formatted into the character class as well, so its own
\* characters count as connectors.
substitutions ==
  [index \in 0..15 |->
     IF index < Len(replacements)
       THEN LET r == replacements[index + 1]
            IN [subout |-> Cat(<<Lit(r), Rep(Chr(Connectors \cup Range(r)), 1, Inf), Lit(r)>>),
                subin |-> Spaced(r)]
     ELSE IF index = 10
       THEN [subout |-> Cat(<<Lit(TEST_INSTANCE), Rep(Chr(Connectors), 1, Inf), Lit(OTHER_TEST)>>),
             subin |-> TEST_INSTANCE]
     ELSE IF index = 11
       THEN [subout |-> Cat(<<Rep(Chr(Digits), 2, 2), Chr({"-", "\\", "/"}),
                              Rep(Chr(Digits), 2, 2), Chr({"-", "\\", "/"}),
                              Rep(Chr(Digits), 2, 5)>>),
             subin |-> Spaced(DATE)]
     ELSE IF index = 12
       THEN [subout |-> Cat(<<Alt(<<Eos, Chr(Whitespace)>>),
                              Chr({"A", "B", "C", "D", "E", "F", "G", "H"}),
                              Opt(Chr({")"})), Chr({"."})>>),
             subin |-> Spaced(SPECIMEN_LABEL)]
     ELSE IF index = 13
       THEN [subout |-> Chr({"\"", "(", "\\", ")", "-", "/", "'"}), subin |-> <<" ">>]
     ELSE IF index = 14
       THEN [subout |-> Chr({".", ",", ";", ":", "?"}), subin |-> Spaced(PUNCTUATION)]
     ELSE [subout |-> Chr({"[", "]"}), subin |-> <<" ">>]]

\* (cytoprep)|(cytolog), IGNORECASE
cytology_pattern ==
  Alt(<<LitI(<<"c", "y", "t", "o", "p", "r", "e", "p">>),
        LitI(<<"c", "y", "t", "o", "l", "o", "g">>)>>)

\* insufficient (tumor|sample)?|technical diff}(tumor|sample) insufficient, IGNORECASE
insufficient_pattern ==
  LET ts == Alt(<<LitI(<<"t", "u", "m", "o", "r">>), LitI(<<"s", "a", "m", "p", "l", "e">>)>>)
  IN Alt(<<Cat(<<LitI(<<"i", "n", "s", "u", "f", "f", "i", "c", "i", "e", "n", "t", " ">>), Opt(ts)>>),
           Cat(<<LitI(<<"t", "e", "c", "h", "n", "i", "c", "a", "l", " ", "d", "i", "f", "f", "}">>),
                 ts,
                 LitI(<<" ", "i", "n", "s", "u", "f", "f", "i", "c", "i", "e", "n", "t">>)>>)>>)

\* the captured group of accession_pattern:
\* [\(]?[A-Z]{1,2}[\- ]?[\d]{2,4}[\- ]{1,3}[\d]{2,8}[\)]?
accession_group ==
  Cat(<<Opt(Chr({"("})), Rep(Chr(Range(UpperLetters)), 1, 2), Opt(Chr({"-", " "})),
        Rep(Chr(Digits), 2, 4), Rep(Chr({"-", " "}), 1, 3), Rep(Chr(Digits), 2, 8),
        Opt(Chr({")"}))>>)

\* [\s\^](TO|THE|FOR|A|AN|AS|THIS|THAT|THESE|THEY|IN|OF|ON|OR|BY)( THE|A|AN)?[\s\$]
stop_list ==
  Cat(<<Chr(Whitespace \cup {"^"}),
        Alt(<<Lit(<<"T", "O">>), Lit(<<"T", "H", "E">>), Lit(<<"F", "O", "R">>),
              Lit(<<"A">>), Lit(<<"A", "N">>), Lit(<<"A", "S">>),
              Lit(<<"T", "H", "I", "S">>), Lit(<<"T", "H", "A", "T">>),
              Lit(<<"T", "H", "E", "S", "E">>), Lit(<<"T", "H", "E", "Y">>),
              Lit(<<"I", "N">>), Lit(<<"O", "F">>), Lit(<<"O", "N">>),
              Lit(<<"O", "R">>), Lit(<<"B", "Y">>)>>),
        Opt(Alt(<<Lit(<<" ", "T", "H", "E">>), Lit(<<"A">>), Lit(<<"A", "N">>)>>)),
        Chr(Whitespace \cup {"$"})>>)

(***************************************************************************)
(* The stages of make_vector.  self is the Vectorizer's mutable state:     *)
(* [text, vector, marker, accession].                                      *)
(***************************************************************************)
\* _get_text: non-ascii characters to spaces, runs of spaces to one space,
\* the <newline> marker to a newline
_get_text(text) ==
  LET ascii_only == [k \in 1..Len(text) |-> IF text[k] \in NonAscii THEN " " ELSE text[k]]
      once == Sub(Rep(Chr({" "}), 1, Inf), <<" ">>, ascii_only)
      twice == Sub(Rep(Chr({" "}), 1, Inf), <<" ">>, once)
  IN Replace(<<"<", "n", "e", "w", "l", "i", "n", "e", ">">>, <<"\n">>, twice)

\* make_vector, lines 108-111: the state a call starts from
Begin(text, accession, marker) ==
  [accession |-> Sub(Chr({"-", " "}), <<>>, accession),
   text |-> _get_text(text),
   vector |-> <<>>,
   marker |-> marker]

_cytology_report(self) ==
  LET result == IF Search(cytology_pattern, self.text) THEN 1 ELSE 0
  IN [self EXCEPT !.vector = Append(@, Feature("CYTO_RELATED_REPORT", <<>>))]

\* pattern.pattern[:-5] + r'[\s]*[\+]': the pattern without its closing cushion
trunc_pattern(p) ==
  Cat(<<NonWordPre, p.frag, Rep(Chr(Whitespace), 0, Inf), Chr({"+"})>>)

_positive_test(self) ==
  IF \E n \in 1..Len(test_patterns) :
        /\ test_patterns[n].label = self.marker
        /\ Search(trunc_pattern(test_patterns[n]), self.text)
    THEN [self EXCEPT !.vector = @ \o <<Feature("post_window=POSITIVE", <<>>),
                                        Feature("post_window=TEST_INSTANCE_POSITIVE", <<>>)>>]
    ELSE self

\* the patterns _test_instance applies: those of the requested marker
IsMarkerPattern(p, marker) == p.label = marker

\* the rules (pattern, subin) of the patterns, in order
RulesTo(patterns, subin) ==
  [n \in 1..Len(patterns) |-> [subout |-> patterns[n].re, subin |-> subin]]

\* the rules (pattern, ' {} '.format(label)) of the patterns, in order
RulesToLabel(patterns) ==
  [n \in 1..Len(patterns) |-> [subout |-> patterns[n].re, subin |-> Spaced(patterns[n].label)]]

_test_instance(self) ==
  [self EXCEPT !.text =
     SubAll(RulesTo(SelectSeq(test_patterns, LAMBDA p : IsMarkerPattern(p, self.marker)),
                    Spaced(TEST_INSTANCE)), @)]

\* the patterns sweep (a) of _standardize applies: every test pattern
IsOtherTestPattern(p, marker) == TRUE

\* one round of _standardize: the test patterns, the section patterns, the
\* other patterns
StandardizePass(marker) ==
  RulesTo(SelectSeq(test_patterns, LAMBDA p : IsOtherTestPattern(p, marker)), Spaced(OTHER_TEST))
    \o RulesToLabel(section_patterns)
    \o RulesToLabel(other_patterns)

\* for i in range(2)
_standardize(self) ==
  [self EXCEPT !.text = SubAll(StandardizePass(self.marker) \o StandardizePass(self.marker), @)]

\* accession_pattern: [\W](group)[\W]
accession_pattern == Cat(<<NotChr(WordChars), accession_group, NotChr(WordChars)>>)

RECURSIVE FindFrom(_, _, _)
FindFrom(m, s, i) ==
  LET nm == NextMatch(m, i)
  IN IF nm = <<>> THEN <<>>
     ELSE <<SubSeq(s, nm[1] + 1, nm[2] - 2)>> \o FindFrom(m, s, nm[2])

\* accession_pattern.finditer(s): group(1) of every match, in order
FindAccessions(s) == FindFrom(MatchTable(accession_pattern, s), s, 1)

\* re.sub(r'[()\- ]', '', match.group(1))
NormalizeMatch(group) == Sub(Chr({"(", ")", "-", " "}), <<>>, group)

\* the placeholder one accession match is replaced by
AccessionSubin(group, accession) ==
  IF NormalizeMatch(group) = accession THEN Spaced(THIS_ACC_NUM) ELSE Spaced(OTHER_ACC_NUM)

\* the loop of _other_accession: for every match, every occurrence of the
\* matched text, anywhere in the current buffer, is replaced
ResolveAll(text, matches, accession) ==
  SubAll([n \in 1..Len(matches) |->
            [subout |-> Lit(matches[n]), subin |-> AccessionSubin(matches[n], accession)]],
         text)

_other_accession(self) ==
  [self EXCEPT !.text = ResolveAll(@, FindAccessions(self.text), self.accession),
               !.vector = Append(@, Feature("OTHER_ACC_NUM_IN_TEXT", <<>>))]

_insufficient(self) ==
  LET result == IF Search(insufficient_pattern, self.text) THEN 1 ELSE 0
  IN [self EXCEPT !.vector = Append(@, Feature("INSUFFICIENT", <<>>))]

\* for index in sorted(self.substitutions)
_substitute(self) ==
  [self EXCEPT !.text =
     SubAll([k \in 1..Cardinality(DOMAIN substitutions) |-> substitutions[k - 1]], @)]

\* one stop-word removal pass
StopPass(text) == Sub(stop_list, <<" ">>, text)

_stop_list(self) == [self EXCEPT !.text = StopPass(StopPass(Upper(@)))]

(***************************************************************************)
(* Windowing (_ngrams, _get_window, _add_section) and _test_mentions.      *)
(* Token indexes are Python's: the first token has index 0.                *)
(***************************************************************************)
Window == 10

\* the tokens that break a window, in the order of _get_window's tuple
BoundaryList == <<SECTION, PUNCTUATION, SPECIMEN_LABEL, OTHER_TEST>>

Boundaries == Range(BoundaryList)

Max(a, b) == IF a >= b THEN a ELSE b

Min(a, b) == IF a <= b THEN a ELSE b

\* the index tokens[k] reads: a negative k counts from the end of the list
PyIndex(tokens, k) == IF k < 0 THEN k + Len(tokens) ELSE k

\* tokens[k]
PyAt(tokens, k) == tokens[PyIndex(tokens, k) + 1]

\* _get_window.  max() of an empty list raises ValueError.
_get_window(tokens, index) ==
  LET window_start == Max(index - Window, 0)
      window_end == Min(Len(tokens), index + Window)
      n == window_end - window_start
      breaks == {i \in 0..(n - 1) : tokens[window_start + i + 1] \in Boundaries}
      before == {i + 1 : i \in {b \in breaks \cup {0} : b < n \div 2}}
      after == {i \in breaks \cup {n} : i > n \div 2}
  IN IF before = {} \/ after = {}
       THEN [raised |-> TRUE, start |-> 0, end |-> 0]
       ELSE [raised |-> FALSE,
             start |-> window_start + SetMax(before),
             end |-> window_start + SetMin(after)]

\* One emitted feature with where it came from: at is the anchor's index,
\* src the indexes of the tokens it was built from.
Emit(f, t, at, src) == [f |-> f, t |-> t, at |-> at, src |-> src]

\* _add_section naming the token before the nearest _SECTION_ in the token
\* list instead of the one visited before it in the backward scan
AddSectionTokenBefore(tokens, index) ==
  LET found == {p \in 0..(index - 1) : tokens[p + 1] = SECTION}
  IN IF found = {} THEN <<>>
     ELSE LET p == SetMax(found)
          IN IF p > 0
               THEN <<Emit("SECTION=", <<tokens[p]>>, index, <<p - 1>>)>>
               ELSE <<Emit("SECTION=", << <<>> >>, index, <<>>)>>

\* _add_section: the nearest _SECTION_ before index, and the token visited
\* just before it in the backward scan ('' when it is the first one visited)
_add_section(tokens, index) ==
  LET found == {p \in 0..(index - 1) : tokens[p + 1] = SECTION}
  IN IF found = {} THEN <<>>
     ELSE LET p == SetMax(found)
          IN IF p + 1 < index
               THEN <<Emit("SECTION=", <<tokens[p + 2]>>, index, <<p + 1>>)>>
               ELSE <<Emit("SECTION=", << <<>> >>, index, <<>>)>>

\* the skip-grams of pre-context token i: for j in 1, 2, 3
PreSkips(tokens, index, start, i) ==
  Flatten([j \in 1..3 |->
             IF index - j > start
               THEN <<Emit("pre_window=", <<PyAt(tokens, i - j), tokens[i + 1]>>, index,
                           <<PyIndex(tokens, i - j), i>>)>>
               ELSE <<>>])

\* for i in reversed(range(start, index))
PreFeatures(tokens, index, start) ==
  Flatten([k \in 1..Max(0, index - start) |->
             LET i == index - k
             IN <<Emit("pre_window=", <<tokens[i + 1]>>, index, <<i>>)>>
                \o PreSkips(tokens, index, start, i)])

\* the skip-grams of post-context token i: for j in 1, 2, 3
PostSkips(tokens, index, end, i) ==
  Flatten([j \in 1..3 |->
             IF i < end - j
               THEN <<Emit("post_window=", <<tokens[i + 1], tokens[i + j + 1]>>, index,
                           <<i, i + j>>)>>
               ELSE <<>>])

\* for i in range(index + 1, min(len(tokens), end))
PostFeatures(tokens, index, end) ==
  Flatten([k \in 1..Max(0, Min(Len(tokens), end) - index - 1) |->
             LET i == index + k
             IN <<Emit("post_window=", <<tokens[i + 1]>>, index, <<i>>)>>
                \o PostSkips(tokens, index, end, i)])

\* the features of one anchor once its window is known
WindowFeatures(tokens, index, start, end) ==
  (IF index > 0 /\ index > start
     THEN <<Emit("immediately_pre_window=", <<tokens[index]>>, index, <<index - 1>>)>>
     ELSE <<>>)
  \o PreFeatures(tokens, index, start)
  \o (IF index < Len(tokens) - 1 /\ index < end - 1
        THEN <<Emit("immediately_post_window=", <<tokens[index + 2]>>, index, <<index + 1>>)>>
        ELSE <<>>)
  \o PostFeatures(tokens, index, end)

\* the indexes of the tokens that are the anchor, in order
Anchors(tokens) ==
  Sorted({i \in 0..(Len(tokens) - 1) : tokens[i + 1] = TEST_INSTANCE})

\* what the body of the loop of _ngrams appends for the anchor at index;
\* when _get_window raises, only what precedes its call
AnchorFeatures(tokens, marker, index) ==
  LET head == <<Emit(marker, <<>>, index, <<>>)>> \o _add_section(tokens, index)
      w == _get_window(tokens, index)
  IN IF w.raised THEN head
     ELSE head \o WindowFeatures(tokens, index, w.start, w.end)

\* the loop of _ngrams: what it appends, and whether _get_window raised
\* (the loop ends there; the features appended before stay appended)
NgramsLoop(tokens, marker) ==
  LET anchors == Anchors(tokens)
      raising == {k \in 1..Len(anchors) : _get_window(tokens, anchors[k]).raised}
      last == IF raising = {} THEN Len(anchors) ELSE SetMin(raising)
  IN [log |-> Flatten([k \in 1..last |-> AnchorFeatures(tokens, marker, anchors[k])]),
      raised |-> raising # {}]

\* the feature strings of a log
Plain(log) == [k \in 1..Len(log) |-> Feature(log[k].f, log[k].t)]

\* _ngrams: [self, raised, log]
_ngrams(self) ==
  LET r == NgramsLoop(Split(self.text), self.marker)
  IN [self |-> [self EXCEPT !.vector = @ \o Plain(r.log)], raised |-> r.raised, log |-> r.log]

\* the number _test_mentions tests
test_mentions(text) == Count(TEST_INSTANCE, text)

_test_mentions(self) ==
  [self EXCEPT !.vector =
     Append(@, Feature("COUNT_TEST_INSTANCE", <<>>))
       \o (IF test_mentions(self.text) = 0 THEN <<Feature("NO_KEYWORD_IN_TEXT", <<>>)>> ELSE <<>>)]

(***************************************************************************)
(* make_vector as a state machine.  A call runs its stages one at a time   *)
(* on the fields of the Vectorizer it was called on.                       *)
(***************************************************************************)
\* make_vector, lines 112-121: the stages in the order they are called
StageOrder ==
  <<"_cytology_report", "_positive_test", "_test_instance", "_standardize",
    "_other_accession", "_insufficient", "_substitute", "_stop_list",
    "_ngrams", "_test_mentions">>

\* After with the substitution rules applied before the insufficient-sample
\* check
AfterSubstituteFirst(stage) ==
  CASE stage = "_other_accession" -> "_substitute"
    [] stage = "_substitute" -> "_insufficient"
    [] stage = "_insufficient" -> "_stop_list"
    [] OTHER ->
         LET k == CHOOSE n \in 1..Len(StageOrder) : StageOrder[n] = stage
         IN IF k < Len(StageOrder) THEN StageOrder[k + 1] ELSE "return"

\* where a call is after running stage: at the next stage, or at the return
After(stage) ==
  LET k == CHOOSE n \in 1..Len(StageOrder) : StageOrder[n] = stage
  IN IF k < Len(StageOrder) THEN StageOrder[k + 1] ELSE "return"

\* MakeVectorEntry without "self.vector = []"
EntryKeepingVector(old, text, accession, marker) ==
  [Begin(text, accession, marker) EXCEPT !.vector = old.vector]

\* make_vector, lines 108-111: the fields a call assigns before its stages
MakeVectorEntry(old, text, accession, marker) == Begin(text, accession, marker)

\* the whole of make_vector on a Vectorizer nothing else uses:
\* [raised, vector]
RunAlone(a) ==
  LET s0 == MakeVectorEntry([text |-> <<>>, vector |-> <<>>, marker |-> "", accession |-> <<>>],
                            a.text, a.accession, a.marker)
      s3 == _test_instance(_positive_test(_cytology_report(s0)))
      s4 == _standardize(s3)
      s5 == _other_accession(s4)
      s7 == _substitute(_insufficient(s5))
      s8 == _stop_list(s7)
      n == _ngrams(s8)
  IN IF /\ Computed(s0) /\ Computed(s3) /\ Computed(s4) /\ Computed(s5)
        /\ Computed(s7) /\ Computed(s8)
        /\ n.raised
       THEN [kind |-> "raised", vector |-> <<>>]
     ELSE [kind |-> "returned", vector |-> _test_mentions(n.self).vector]

Threads == {1, 2}

Vectorizers == {1, 2}

VARIABLES
  self,     \* Vectorizer -> its fields text, vector, marker, accession
  pc,       \* thread -> "idle", the stage it is about to run, "return" or "raised"
  args,     \* thread -> the arguments of its current (or last) call
  obj,      \* thread -> the Vectorizer of its current (or last) call
  result,   \* thread -> how its last call ended, and the list it returned
  trace,    \* thread -> the stages its current (or last) call has run, in order
  log,      \* thread -> what _ngrams emitted in its current (or last) call
  prior,    \* thread -> the text buffer its last stage started from
  overlap,  \* thread -> what ran during its current (or last) call: "same",
            \* a call on the same Vectorizer; "other", calls on other
            \* Vectorizers only; "none"
  calls,    \* thread -> the number of calls it has made
  ref,      \* one completed call, kept for comparison with later ones
  cases,    \* run.py: case -> marker -> (status, deciding record ID)
  row,      \* run.py: the row process_row is working on, with the position
            \* of its loop over MARKERS
  rows,     \* run.py: the number of rows read
  halted    \* run.py: an error has ended the program

vars ==
  <<self, pc, args, obj, result, trace, log, prior, overlap, calls, ref,
    cases, row, rows, halted>>

\* what process_records holds
NoRow == [next |-> 0]

NoFields == [text |-> <<>>, vector |-> <<>>, marker |-> "", accession |-> <<>>]

NoArgs == [text |-> <<>>, accession |-> <<>>, marker |-> ""]

NoResult == [kind |-> "none", vector |-> <<>>]

NoRef == [kind |-> "none", args |-> NoArgs, vector |-> <<>>, between |-> FALSE]

InCall(t) == pc[t] \notin {"idle", "raised"}

\* nothing has been called yet
Fresh ==
  /\ self = [v \in Vectorizers |-> NoFields]
  /\ pc = [t \in Threads |-> "idle"]
  /\ args = [t \in Threads |-> NoArgs]
  /\ obj = [t \in Threads |-> 1]
  /\ result = [t \in Threads |-> NoResult]
  /\ trace = [t \in Threads |-> <<>>]
  /\ log = [t \in Threads |-> <<>>]
  /\ prior = [t \in Threads |-> <<>>]
  /\ overlap = [t \in Threads |-> "none"]
  /\ calls = [t \in Threads |-> 0]
  /\ ref = NoRef
  /\ cases = <<>> /\ row = NoRow /\ rows = 0 /\ halted = FALSE

\* Call with text, vector, marker and accession held by the class, so that
\* every Vectorizer has the same ones
CallOnClassFields(t, a, v, limit) ==
  /\ pc[t] = "idle"
  /\ calls[t] < limit
  /\ calls' = [calls EXCEPT ![t] = @ + 1]
  /\ self' = [w \in Vectorizers |-> MakeVectorEntry(self[w], a.text, a.accession, a.marker)]
  /\ pc' = [pc EXCEPT ![t] = StageOrder[1]]
  /\ args' = [args EXCEPT ![t] = a]
  /\ obj' = [obj EXCEPT ![t] = v]
  /\ trace' = [trace EXCEPT ![t] = <<>>]
  /\ log' = [log EXCEPT ![t] = <<>>]
  /\ prior' = [prior EXCEPT ![t] = <<>>]
  /\ overlap' = [u \in Threads |->
                   IF u = t
                     THEN IF \E o \in Threads \ {t} : InCall(o) /\ obj[o] = v THEN "same"
                          ELSE IF \E o \in Threads \ {t} : InCall(o) THEN "other"
                          ELSE "none"
                   ELSE IF ~InCall(u) THEN overlap[u]
                   ELSE IF obj[u] = v THEN "same"
                   ELSE IF overlap[u] = "none" THEN "other"
                   ELSE overlap[u]]
  /\ UNCHANGED <<result, ref>>
  /\ UNCHANGED <<cases, row, rows, halted>>

\* thread t calls make_vector(a.text, a.accession, a.marker) on Vectorizer v
\* (its calls are counted, and limited to limit)
Call(t, a, v, limit) ==
  /\ pc[t] = "idle"
  /\ calls[t] < limit
  /\ calls' = [calls EXCEPT ![t] = @ + 1]
  /\ self' = [self EXCEPT ![v] = MakeVectorEntry(@, a.text, a.accession, a.marker)]
  /\ pc' = [pc EXCEPT ![t] = StageOrder[1]]
  /\ args' = [args EXCEPT ![t] = a]
  /\ obj' = [obj EXCEPT ![t] = v]
  /\ trace' = [trace EXCEPT ![t] = <<>>]
  /\ log' = [log EXCEPT ![t] = <<>>]
  /\ prior' = [prior EXCEPT ![t] = <<>>]
  /\ overlap' = [u \in Threads |->
                   IF u = t
                     THEN IF \E o \in Threads \ {t} : InCall(o) /\ obj[o] = v THEN "same"
                          ELSE IF \E o \in Threads \ {t} : InCall(o) THEN "other"
                          ELSE "none"
                   ELSE IF ~InCall(u) THEN overlap[u]
                   ELSE IF obj[u] = v THEN "same"
                   ELSE IF overlap[u] = "none" THEN "other"
                   ELSE overlap[u]]
  /\ UNCHANGED <<result, ref>>
  /\ UNCHANGED <<cases, row, rows, halted>>

\* a stage that rewrites the fields and cannot fail
Stage(t, name, after) ==
  /\ pc[t] = name
  /\ self' = [self EXCEPT ![obj[t]] = after]
  /\ pc' = [pc EXCEPT ![t] = After(name)]
  /\ trace' = [trace EXCEPT ![t] = Append(@, name)]
  /\ prior' = [prior EXCEPT ![t] = self[obj[t]].text]
  /\ UNCHANGED <<args, obj, result, log, overlap, calls, ref>>
  /\ UNCHANGED <<cases, row, rows, halted>>

CytologyReport(t) == Stage(t, "_cytology_report", _cytology_report(self[obj[t]]))

PositiveTest(t) == Stage(t, "_positive_test", _positive_test(self[obj[t]]))

TestInstance(t) == Stage(t, "_test_instance", _test_instance(self[obj[t]]))

Standardize(t) == Stage(t, "_standardize", _standardize(self[obj[t]]))

OtherAccession(t) == Stage(t, "_other_accession", _other_accession(self[obj[t]]))

Insufficient(t) == Stage(t, "_insufficient", _insufficient(self[obj[t]]))

Substitute(t) == Stage(t, "_substitute", _substitute(self[obj[t]]))

StopList(t) == Stage(t, "_stop_list", _stop_list(self[obj[t]]))

\* _ngrams: the ValueError of _get_window leaves make_vector
Ngrams(t) ==
  /\ pc[t] = "_ngrams"
  /\ LET n == _ngrams(self[obj[t]])
     IN /\ self' = [self EXCEPT ![obj[t]] = n.self]
        /\ log' = [log EXCEPT ![t] = n.log]
        /\ pc' = [pc EXCEPT ![t] = IF n.raised THEN "raised" ELSE After("_ngrams")]
        /\ result' = [result EXCEPT ![t] =
                        IF n.raised THEN [kind |-> "raised", vector |-> <<>>] ELSE @]
  /\ trace' = [trace EXCEPT ![t] = Append(@, "_ngrams")]
  /\ prior' = [prior EXCEPT ![t] = self[obj[t]].text]
  /\ UNCHANGED <<args, obj, overlap, calls, ref>>
  /\ UNCHANGED <<cases, row, rows, halted>>

TestMentions(t) ==
  /\ pc[t] = "_test_mentions"
  /\ self' = [self EXCEPT ![obj[t]] = _test_mentions(@)]
  /\ pc' = [pc EXCEPT ![t] = After("_test_mentions")]
  /\ trace' = [trace EXCEPT ![t] = Append(@, "_test_mentions")]
  /\ prior' = [prior EXCEPT ![t] = self[obj[t]].text]
  /\ UNCHANGED <<args, obj, result, log, overlap, calls, ref>>
  /\ UNCHANGED <<cases, row, rows, halted>>

\* return self.vector.  With keep, the call may be remembered as ref, and
\* ref notes whether a call with other arguments returned after it.
Return(t, keep) ==
  /\ pc[t] = "return"
  /\ pc' = [pc EXCEPT ![t] = "idle"]
  /\ result' = [result EXCEPT ![t] = [kind |-> "returned", vector |-> self[obj[t]].vector]]
  /\ ref' \in
       IF ~keep THEN {ref}
       ELSE IF ref.kind = "none"
         THEN {ref, [kind |-> "returned", args |-> args[t],
                     vector |-> self[obj[t]].vector, between |-> FALSE]}
       ELSE IF args[t] # ref.args THEN {[ref EXCEPT !.between = TRUE]}
       ELSE {ref}
  /\ UNCHANGED <<self, args, obj, trace, log, prior, overlap, calls>>
  /\ UNCHANGED <<cases, row, rows, halted>>

\* the stages of a call in progress
Stages(t) ==
  \/ CytologyReport(t)
  \/ PositiveTest(t)
  \/ TestInstance(t)
  \/ Standardize(t)
  \/ OtherAccession(t)
  \/ Insufficient(t)
  \/ Substitute(t)
  \/ StopList(t)
  \/ Ngrams(t)
  \/ TestMentions(t)

(***************************************************************************)
(* Inputs                                                                  *)
(***************************************************************************)
RECURSIVE JoinRange(_, _, _)
\* the words lo..hi, each followed by one space
JoinRange(words, lo, hi) ==
  IF lo > hi THEN <<>>
  ELSE IF lo = hi THEN words[lo] \o <<" ">>
  ELSE LET mid == (lo + hi) \div 2
       IN JoinRange(words, lo, mid) \o JoinRange(words, mid + 1, hi)

\* a report text: the words with one space before, between and after them
Text(words) == <<" ">> \o JoinRange(words, 1, Len(words))

\* the texts of 1..max words taken from chunks
TextsOf(chunks, max) ==
  {Text(ws) : ws \in UNION {[1..n -> Range(chunks)] : n \in 1..max}}

\* run.py: MARKERS
MARKERS == {"EGFR", "ALK"}

Accession1 == <<"S", "1", "7", "-", "1", "1">>

InputsOf(texts) ==
  {[text |-> x, accession |-> Accession1, marker |-> m] : x \in texts, m \in MARKERS}

\* the report the concurrent calls vectorize
ConcText == Text(<< <<"e", "g", "f", "r">>, <<"n", "e", "g">> >>)

\* thread 1 vectorizes it for EGFR, thread 2 for either marker
ConcInputs(t) == {a \in InputsOf({ConcText}) : t = 1 => a.marker = "EGFR"}

(***************************************************************************)
(* Spec: two calls of make_vector, one from each of two threads, their     *)
(* stages interleaved in any order.  Thread 1 calls on Vectorizer 1,       *)
(* thread 2 on the same Vectorizer or on another one.                      *)
(***************************************************************************)
Init == Fresh

VectorizersOf(t) == IF t = 1 THEN {1} ELSE Vectorizers

Next ==
  \E t \in Threads :
    \/ \E a \in ConcInputs(t), v \in VectorizersOf(t) : Call(t, a, v, 1)
    \/ Stages(t)
    \/ Return(t, FALSE)

Spec == Init /\ [][Next]_vars

(***************************************************************************)
(* DetSpec: run.py's use of the Vectorizer.  One thread calls make_vector  *)
(* on one Vectorizer, one call after the other, up to MaxDetCalls calls.   *)
(***************************************************************************)
MaxDetCalls == 3

DetTexts ==
  {Text(<< <<"e", "g", "f", "r">> >>), Text(<< <<"a", "l", "k">>, <<"+">> >>)}

DetInputs == InputsOf(DetTexts)

DetNext ==
  \/ \E a \in DetInputs : Call(1, a, 1, MaxDetCalls)
  \/ Stages(1)
  \/ Return(1, TRUE)

DetSpec == Init /\ [][DetNext]_vars

(***************************************************************************)
(* SeqSpec: one call of make_vector, on any report of up to MaxSeqChunks   *)
(* of SeqChunks or up to MaxStopWords of StopWords.                        *)
(***************************************************************************)
MaxSeqChunks == 3

SeqChunks ==
  << <<"e", "g", "f", "r">>,
     <<"n", "e", "g">>,
     <<".">>,
     <<"x">> \o TEST_INSTANCE,
     <<"S", "1", "7", "-", "1", "1">>,
     <<"S", "1", "7", "-", "1", "1", "2">> >>

MaxStopWords == 5

StopWords == << <<"a">>, <<"t", "h", "e">>, <<"x">> >>

SeqInputs ==
  InputsOf(TextsOf(SeqChunks, MaxSeqChunks))
    \cup {a \in InputsOf(TextsOf(StopWords, MaxStopWords)) : a.marker = "EGFR"}

SeqNext ==
  \/ \E a \in SeqInputs : Call(1, a, 1, 1)
  \/ Stages(1)
  \/ Return(1, FALSE)

SeqSpec == Init /\ [][SeqNext]_vars

(***************************************************************************)
(* WinSpec: the windowing pass and what follows it, on the final buffers   *)
(* that hold one anchor with up to MaxPre tokens before it and up to       *)
(* MaxPost after it, at most two of them boundary tokens.  The call starts *)
(* where make_vector is about to run _ngrams: the report whose words are   *)
(* the tokens with " of " between them leads there, its stop words gone.   *)
(***************************************************************************)
MaxPre == 11

MaxPost == 11

Filler == <<"W">>

\* pre fillers, the anchor, post fillers; the tokens at breaks are boundary
\* tokens, of the kind their position selects
WinTokens(pre, post, breaks) ==
  [k \in 1..(pre + post + 1) |->
     IF k = pre + 1 THEN TEST_INSTANCE
     ELSE IF k \in breaks THEN BoundaryList[(k % Len(BoundaryList)) + 1]
     ELSE Filler]

WinBuffers ==
  UNION {
    LET free == (1..(pre + post + 1)) \ {pre + 1}
    IN {WinTokens(pre, post, {})}
         \cup {WinTokens(pre, post, {a, b}) : a \in free, b \in free}
    : pre \in 0..MaxPre, post \in 0..MaxPost}

\* the words of the report that leaves tokens as its final buffer
RawWords(tokens) ==
  [k \in 1..Max(0, 2 * Len(tokens) - 1) |->
     IF k % 2 = 1 THEN tokens[(k + 1) \div 2] ELSE <<"o", "f">>]

WinInit ==
  \E tokens \in WinBuffers :
    LET a == [text |-> Text(RawWords(tokens)), accession |-> Accession1, marker |-> "EGFR"]
        entry == Begin(<<>>, a.accession, a.marker)
        fields == [entry EXCEPT
                     !.text = Text(tokens),
                     !.vector = <<Feature("CYTO_RELATED_REPORT", <<>>),
                                  Feature("OTHER_ACC_NUM_IN_TEXT", <<>>),
                                  Feature("INSUFFICIENT", <<>>)>>]
    IN /\ self = [v \in Vectorizers |-> IF v = 1 THEN fields ELSE NoFields]
       /\ pc = [t \in Threads |-> IF t = 1 THEN "_ngrams" ELSE "idle"]
       /\ args = [t \in Threads |-> IF t = 1 THEN a ELSE NoArgs]
       /\ obj = [t \in Threads |-> 1]
       /\ result = [t \in Threads |-> NoResult]
       /\ trace = [t \in Threads |->
                     IF t = 1
                       THEN SubSeq(StageOrder, 1,
                                   (CHOOSE n \in 1..Len(StageOrder) : StageOrder[n] = "_ngrams") - 1)
                       ELSE <<>>]
       /\ log = [t \in Threads |-> <<>>]
       /\ prior = [t \in Threads |-> IF t = 1 THEN a.text ELSE <<>>]
       /\ overlap = [t \in Threads |-> "none"]
       /\ calls = [t \in Threads |-> IF t = 1 THEN 1 ELSE 0]
       /\ ref = NoRef
       /\ cases = <<>> /\ row = NoRow /\ rows = 0 /\ halted = FALSE

WinNext ==
  \/ Ngrams(1)
  \/ TestMentions(1)
  \/ Return(1, FALSE)

WinSpec == WinInit /\ [][WinNext]_vars

(***************************************************************************)
(* run.py: process_records reads the rows one by one and process_row       *)
(* classifies each for every marker and updates the case-level status.     *)
(* Python values that the code compares across types carry their type.     *)
(***************************************************************************)
\* a (status, record) tuple
Tuple(status, record) == [type |-> "tuple", val |-> <<status, record>>]

\* a == s for a str s: a value of another type is never equal to it
PyEq(a, s) == a.type = "str" /\ a.val = s

\* MARKERS, in the order of the list
MarkerList == <<"EGFR", "ALK">>

\* the subsets of patients, records and cases to process or to skip: the
\* file names are commented out, so each open() raises NameError
pt_subset == {}

rd_subset == {}

skip_set == {}

\* _translate_output: the labels of the SVM outputs
result_mapping ==
  [output \in 0..5 |->
     CASE output = 0 -> "Unknown"
       [] output = 1 -> "Positive"
       [] output = 2 -> "Negative"
       [] output = 3 -> "Insufficient"
       [] output = 4 -> "Reported"
       [] output = 5 -> "Not Reported"]

method_mapping ==
  [output \in 0..4 |->
     CASE output = 0 -> "Mutational Analysis"
       [] output = 1 -> "IHC"
       [] output = 2 -> "FISH"
       [] output = 3 -> "OTHER"
       [] output = 4 -> "NONE"]

\* what the three models may predict for a vector
SvmOutputs ==
  [svm_reported : DOMAIN result_mapping,
   positive : DOMAIN result_mapping,
   method : DOMAIN method_mapping]

\* GenTestClassifier.classify, the models predicting svm
classify(vector, svm) ==
  LET none == [reported |-> "Not Reported", result |-> "N/A", method |-> "N/A"]
  IN IF \E k \in 1..Len(vector) : vector[k] = Feature("NO_KEYWORD_IN_TEXT", <<>>)
       THEN none
     ELSE IF result_mapping[svm.svm_reported] # "Reported" THEN none
     ELSE [reported |-> "Results Reported",
           result |-> result_mapping[svm.positive],
           method |-> method_mapping[svm.method]]

\* the whole of make_vector on the fields old: whether it raised, and the
\* fields it leaves
MakeVector(old, a) ==
  LET s0 == MakeVectorEntry(old, a.text, a.accession, a.marker)
      s3 == _test_instance(_positive_test(_cytology_report(s0)))
      s4 == _standardize(s3)
      s5 == _other_accession(s4)
      s7 == _substitute(_insufficient(s5))
      s8 == _stop_list(s7)
      n == _ngrams(s8)
  IN IF /\ Computed(s0) /\ Computed(s3) /\ Computed(s4) /\ Computed(s5)
        /\ Computed(s7) /\ Computed(s8)
        /\ n.raised
       THEN [raised |-> TRUE, self |-> n.self]
     ELSE [raised |-> FALSE, self |-> _test_mentions(n.self)]

\* d.setdefault(k, v), as the dict it leaves
SetDefault(d, k, v) ==
  IF k \in DOMAIN d THEN d
  ELSE [x \in DOMAIN d \cup {k} |-> IF x = k THEN v ELSE d[x]]

\* cases.setdefault(case, {}).setdefault(marker, ('Unknown', 'N/A'))
WithDefault(c, case, marker) ==
  LET outer == SetDefault(c, case, <<>>)
  IN [outer EXCEPT ![case] = SetDefault(@, marker, Tuple("Unknown", "N/A"))]

\* process_row, lines 175-186: the status of case for marker after a row
\* classified as label (result) by method
TakeResult(c, case, marker, label, method, record) ==
  LET decides == marker = "ALK" \/ method = "Mutational Analysis"
      positive == IF label = "Positive" /\ decides
                    THEN [c EXCEPT ![case][marker] = Tuple(label, record)]
                    ELSE c
  IN IF PyEq(c[case][marker], "Positive") THEN c
     ELSE IF PyEq(positive[case][marker], "Negative") THEN positive
     ELSE IF label = "Negative" /\ decides
       THEN [positive EXCEPT ![case][marker] = Tuple(label, record)]
     ELSE positive

\* '{}_{}'.format(patient, tumor)
Case(patient, tumor) == patient \o <<"_">> \o tumor

MaxRows == 3

\* the rows of the input file
Rows(n) ==
  LET Accessions == {Accession1}
      Tumors == {<<"T">>}
      Records == <<"R1", "R2", "R3", "R4", "R5", "R6">>
      Patients == {<<"P", "1">>, <<"P", "2">>}
      Texts == {Text(<< <<"e", "g", "f", "r">>, <<"n", "e", "g">>,
                        <<"a", "l", "k">>, <<"n", "e", "g">> >>),
                Text(<< <<"e", "g", "f", "r">>, <<"n", "e", "g">> >>),
                Text(<< <<"e", "g", "f", "r">> >>)}
  IN {[accession |-> a, tumor |-> u, record |-> Records[n], patient |-> q, text |-> x] :
        a \in Accessions, u \in Tumors, q \in Patients, x \in Texts}

\* process_records reads a row and process_row starts on it (lines 157-169)
StartRow(r) ==
  /\ ~halted
  /\ row = NoRow
  /\ rows < MaxRows
  /\ rows' = rows + 1
  /\ row' = IF \/ pt_subset # {} /\ r.patient \notin pt_subset
               \/ rd_subset # {} /\ r.record \notin rd_subset
               \/ skip_set # {} /\ Case(r.patient, r.tumor) \in skip_set
              THEN NoRow
              ELSE [next |-> 1, case |-> Case(r.patient, r.tumor), record |-> r.record,
                    accession |-> r.accession, text |-> r.text]
  /\ UNCHANGED <<self, pc, args, obj, result, trace, log, prior, overlap, calls, ref,
                 cases, halted>>

\* one round of "for marker in MARKERS" (lines 171-186); an error raised by
\* make_vector ends the program
ProcessMarker ==
  /\ ~halted
  /\ row # NoRow
  /\ row.next <= Len(MarkerList)
  /\ LET marker == MarkerList[row.next]
         c == WithDefault(cases, row.case, marker)
     IN \E made \in {MakeVector(self[1], [text |-> row.text, accession |-> row.accession,
                                          marker |-> marker])} :
        /\ self' = [self EXCEPT ![1] = made.self]
        /\ halted' = made.raised
        /\ IF made.raised
             THEN cases' = c /\ row' = row
             ELSE /\ row' = [row EXCEPT !.next = @ + 1]
                  /\ \E svm \in SvmOutputs :
                       LET label == classify(made.self.vector, svm)
                       IN cases' = TakeResult(c, row.case, marker, label.result,
                                              label.method, row.record)
  /\ UNCHANGED <<pc, args, obj, result, trace, log, prior, overlap, calls, ref, rows>>

\* process_row returns cases (lines 187-188)
EndRow ==
  /\ ~halted
  /\ row # NoRow
  /\ row.next > Len(MarkerList)
  /\ row' = NoRow
  /\ UNCHANGED <<self, pc, args, obj, result, trace, log, prior, overlap, calls, ref,
                 cases, rows, halted>>

(***************************************************************************)
(* RowSpec: process_records on any input file of up to MaxRows rows.       *)
(***************************************************************************)
RowNext ==
  \/ \E r \in Rows(rows + 1) : StartRow(r)
  \/ ProcessMarker
  \/ EndRow

RowSpec == Init /\ [][RowNext]_vars

(***************************************************************************)
(* Properties                                                              *)
(***************************************************************************)
\* the call of thread t has returned its vector
Returned(t) == pc[t] = "idle" /\ result[t].kind = "returned"

\* the call of thread t is over: it returned, or an error left make_vector
Ended(t) == Returned(t) \/ pc[t] = "raised"

\* C1: a call that returns with the arguments of an earlier completed call
\* returns the same feature sequence as that call, whatever calls were
\* completed on the Vectorizer before or between the two
Deterministic ==
  \A t \in Threads :
    (Returned(t) /\ ref.kind = "returned" /\ args[t] = ref.args)
      => result[t].vector = ref.vector

\* C1: a third call has returned with the arguments of a remembered call,
\* a call with other arguments having returned between them
DeterministicWitness ==
  \E t \in Threads :
    /\ Returned(t)
    /\ ref.kind = "returned"
    /\ args[t] = ref.args
    /\ ref.between
    /\ calls[t] >= 3
    /\ Len(result[t].vector) > 0

\* C2, as stated: every call that is over ended as it ends when run alone,
\* also when the other call ran on the same Vectorizer during it
ConcurrentCallsAgree ==
  \A t \in Threads : Ended(t) => result[t] = RunAlone(args[t])

\* C2, amended: a call during which no call ran on the same Vectorizer ends
\* as it ends when run alone, however its stages were interleaved with those
\* of calls on other Vectorizers
OwnVectorizerCallsAgree ==
  \A t \in Threads :
    (Ended(t) /\ overlap[t] # "same") => result[t] = RunAlone(args[t])

\* C2: both calls are over, they ran during each other, each on its own
\* Vectorizer
OwnVectorizerWitness ==
  /\ \A t \in Threads : Returned(t) /\ overlap[t] = "other"
  /\ obj[1] # obj[2]

\* C3: in a returned vector NO_KEYWORD_IN_TEXT is present exactly when no
\* marker-name feature is, and COUNT_TEST_INSTANCE is there once, after
\* every marker-name feature and before the sentinel
SentinelIffNoAnchor ==
  \A t \in Threads :
    Returned(t) =>
      LET v == result[t].vector
          at(f) == {k \in 1..Len(v) : v[k] = f}
          anchors == at(Feature(args[t].marker, <<>>))
          counts == at(Feature("COUNT_TEST_INSTANCE", <<>>))
          sentinels == at(Feature("NO_KEYWORD_IN_TEXT", <<>>))
      IN /\ (sentinels # {}) <=> (anchors = {})
         /\ Cardinality(counts) = 1
         /\ \A c \in counts :
              /\ \A k \in anchors : k < c
              /\ \A k \in sentinels : k > c

\* C4: no pre_window= or post_window= feature has a boundary token strictly
\* between its anchor and one of the tokens it was built from
WindowBoundaryLaw ==
  \A t \in Threads :
    LET tokens == Split(self[obj[t]].text)
    IN \A k \in 1..Len(log[t]) :
         log[t][k].f \in {"pre_window=", "post_window="} =>
           \A s \in Range(log[t][k].src) :
             \A b \in 0..(Len(tokens) - 1) :
               ~ /\ tokens[b + 1] \in Boundaries
                 /\ \/ s < b /\ b < log[t][k].at
                    \/ log[t][k].at < b /\ b < s

\* C5: no call of make_vector ends with an error
NeverRaises == \A t \in Threads : pc[t] # "raised"

\* C6: on the buffer _stop_list leaves, one more stop-word pass changes
\* nothing
ThirdPassNoOp ==
  \A t \in Threads :
    pc[t] = "_ngrams" => StopPass(self[obj[t]].text) = self[obj[t]].text

\* C7: the buffer _other_accession leaves has the tokens of the buffer it
\* started from with every accession between two non-word characters, and
\* nothing else, replaced: by THIS_ACC_NUM when the accession, stripped, is
\* the report's accession, by OTHER_ACC_NUM otherwise
AccessionSelfReference ==
  \A t \in Threads :
    pc[t] = "_insufficient" =>
      LET s == prior[t]
          m == MatchTable(accession_pattern, s)
          RECURSIVE resolved(_)
          resolved(i) ==
            LET nm == NextMatch(m, i)
            IN IF nm = <<>> THEN SubSeq(s, i, Len(s))
               ELSE SubSeq(s, i, nm[1])
                      \o AccessionSubin(SubSeq(s, nm[1] + 1, nm[2] - 2), self[obj[t]].accession)
                      \o resolved(nm[2] - 1)
      IN Split(self[obj[t]].text) = Split(resolved(1))

\* C8: a call on a text without insufficient-sample language returns a
\* vector without INSUFFICIENT
InsufficientReflectsCheck ==
  \A t \in Threads :
    (Returned(t) /\ ~Search(insufficient_pattern, args[t].text)) =>
      \A k \in 1..Len(result[t].vector) :
        result[t].vector[k] # Feature("INSUFFICIENT", <<>>)

\* C9, as stated: the stages named by the claim run in the claimed order,
\* the insufficient-sample check after the substitution rules
InsufficientAfterSubstitute ==
  \A t \in Threads :
    LET claimed == <<"_positive_test", "_test_instance", "_standardize",
                     "_other_accession", "_substitute", "_insufficient",
                     "_stop_list", "_ngrams", "_test_mentions">>
        ran == SelectSeq(trace[t], LAMBDA x : x \in Range(claimed))
    IN ran = SubSeq(claimed, 1, Len(ran))

\* C9, amended: the stages of a call run, each once, in the order cytology
\* check, positive-assertion detection, marker mention substitution,
\* context normalizer, accession resolver, insufficient-sample check,
\* substitution rules, stop-word stripping, windowing pass, count/sentinel
\* step; a call that returns has run them all, and a call that an error
\* ended has run them up to the windowing pass
StageOrderOfCode ==
  \A t \in Threads :
    LET order == <<"_cytology_report", "_positive_test", "_test_instance",
                   "_standardize", "_other_accession", "_insufficient",
                   "_substitute", "_stop_list", "_ngrams", "_test_mentions">>
    IN /\ Len(trace[t]) <= Len(order)
       /\ trace[t] = SubSeq(order, 1, Len(trace[t]))
       /\ Returned(t) => trace[t] = order
       /\ pc[t] = "raised" => trace[t] = SubSeq(order, 1, 9)

\* C9: a call has returned, having run the insufficient-sample check as
\* its sixth stage and the substitution rules as its seventh
StageOrderWitness ==
  \E t \in Threads :
    /\ Returned(t)
    /\ Len(trace[t]) = 10
    /\ trace[t][6] = "_insufficient"
    /\ trace[t][7] = "_substitute"

\* C10: for every anchor the window _get_window returns starts one past
\* the last boundary token before the midpoint of the candidate window, or
\* where the candidate window starts when there is none, and ends at the
\* first boundary token after the midpoint, or where the candidate window
\* ends; the pre_window unigrams of the anchor are those of the tokens from
\* that start up to the anchor
WindowBounds ==
  \A t \in Threads :
    pc[t] = "_test_mentions" =>
      LET tokens == Split(self[obj[t]].text)
      IN \A index \in Range(Anchors(tokens)) :
           LET window_start == Max(index - Window, 0)
               window_end == Min(Len(tokens), index + Window)
               n == window_end - window_start
               breaks == {i \in 0..(n - 1) : tokens[window_start + i + 1] \in Boundaries}
               preceding == {i \in breaks : i < n \div 2}
               following == {i \in breaks : i > n \div 2}
               start == IF preceding = {} THEN window_start
                        ELSE window_start + SetMax(preceding) + 1
               end == IF following = {} THEN window_end
                      ELSE window_start + SetMin(following)
               w == _get_window(tokens, index)
               unigrams == {log[t][k].src[1] :
                              k \in {j \in 1..Len(log[t]) :
                                       /\ log[t][j].at = index
                                       /\ log[t][j].f = "pre_window="
                                       /\ Len(log[t][j].src) = 1}}
           IN /\ w.start = start
              /\ w.end = end
              /\ unigrams = start..(index - 1)

\* C11: every skip-gram emitted for an anchor is built from two tokens of
\* the anchor's window [start, end), the first 1 to 3 places before the
\* second: a pre-context one from tokens k - offset and k with
\* start <= k - offset and k before the anchor, a post-context one from
\* tokens k and k + offset with k after the anchor and k + offset < end
SkipGramsInsideWindow ==
  \A t \in Threads :
    pc[t] = "_test_mentions" =>
      LET tokens == Split(self[obj[t]].text)
      IN \A n \in 1..Len(log[t]) :
           LET e == log[t][n]
               w == _get_window(tokens, e.at)
           IN (e.f \in {"pre_window=", "post_window="} /\ Len(e.src) = 2) =>
                /\ e.src[2] - e.src[1] \in 1..3
                /\ w.start <= e.src[1]
                /\ e.src[2] < w.end
                /\ IF e.f = "pre_window=" THEN e.src[2] < e.at ELSE e.at < e.src[1]

\* C12, as stated: an anchor has at most one SECTION= feature, none when
\* no _SECTION_ token is before it, and otherwise one that names the token
\* just before the nearest _SECTION_ token before the anchor
SectionNamesTokenBefore ==
  \A t \in Threads :
    pc[t] = "_test_mentions" =>
      LET tokens == Split(self[obj[t]].text)
      IN \A index \in Range(Anchors(tokens)) :
           LET sections == {p \in 0..(index - 1) : tokens[p + 1] = SECTION}
               emitted == {n \in 1..Len(log[t]) :
                             log[t][n].at = index /\ log[t][n].f = "SECTION="}
           IN /\ Cardinality(emitted) <= 1
              /\ (emitted = {}) <=> (sections = {})
              /\ \A n \in emitted :
                   LET p == SetMax(sections)
                   IN p > 0 /\ log[t][n].t = <<tokens[p]>>

\* C12, amended: an anchor has at most one SECTION= feature, none when no
\* _SECTION_ token is before it, and otherwise one that names the token
\* just after the nearest _SECTION_ token before the anchor, or nothing
\* ('SECTION=') when that _SECTION_ token is the token just before the anchor
SectionNamesTokenAfter ==
  \A t \in Threads :
    pc[t] = "_test_mentions" =>
      LET tokens == Split(self[obj[t]].text)
      IN \A index \in Range(Anchors(tokens)) :
           LET sections == {p \in 0..(index - 1) : tokens[p + 1] = SECTION}
               emitted == {n \in 1..Len(log[t]) :
                             log[t][n].at = index /\ log[t][n].f = "SECTION="}
           IN /\ Cardinality(emitted) <= 1
              /\ (emitted = {}) <=> (sections = {})
              /\ \A n \in emitted :
                   \A p \in sections :
                     (\A q \in sections : q <= p) =>
                       log[t][n].t = <<IF p = index - 1 THEN <<>> ELSE tokens[p + 2]>>

\* C12: the windowing pass has run on a buffer with a _SECTION_ token
\* before the anchor, the nearest one between two different tokens, and has
\* emitted the SECTION= feature that names the token after it
SectionWitness ==
  \E t \in Threads :
    /\ pc[t] = "_test_mentions"
    /\ LET tokens == Split(self[obj[t]].text)
       IN \E index \in Range(Anchors(tokens)) :
            LET sections == {p \in 0..(index - 1) : tokens[p + 1] = SECTION}
            IN \E p \in sections :
                 /\ \A q \in sections : q <= p
                 /\ p > 0
                 /\ p < index - 1
                 /\ tokens[p] # tokens[p + 2]
                 /\ \E n \in 1..Len(log[t]) :
                      /\ log[t][n].at = index
                      /\ log[t][n].f = "SECTION="
                      /\ log[t][n].t = <<tokens[p + 2]>>

\* C13: once _test_instance has run no word of the buffer is a mention of
\* the requested marker, and once _standardize has run the buffer has as
\* many OTHER_TEST tokens as the report has mentions of other markers, so
\* that none stands for a mention of the requested marker
MarkerMentionsBecomeAnchors ==
  \A t \in Threads :
    LET marker == self[obj[t]].marker
        tokens == Split(self[obj[t]].text)
        words == Split(args[t].text)
        Mentions(w, own) ==
          \E n \in 1..Len(test_patterns) :
            /\ (test_patterns[n].label = marker) <=> own
            /\ MatchAt(test_patterns[n].frag, w, 1) = Len(w) + 1
    IN /\ pc[t] = "_standardize" =>
            \A k \in 1..Len(tokens) : ~Mentions(tokens[k], TRUE)
       /\ pc[t] = "_other_accession" =>
            Cardinality({k \in 1..Len(tokens) : tokens[k] = OTHER_TEST})
              = Cardinality({k \in 1..Len(words) : Mentions(words[k], FALSE)})

\* C14: once the status of a case for a marker is ('Positive', record), no
\* step changes it
FirstPositiveStays ==
  [][\A case \in DOMAIN cases :
       \A marker \in DOMAIN cases[case] :
         (cases[case][marker].val[1] = "Positive") =>
           /\ case \in DOMAIN cases'
           /\ marker \in DOMAIN cases'[case]
           /\ cases'[case][marker] = cases[case][marker]]_vars

====
